---- MODULE Spec2Model ----
(***************************************************************************)
(* A model of obsidian_latex.py: the Obsidian-markdown to LaTeX compiler.  *)
(* Texts are TLA+ strings (sequences of characters); the regular           *)
(* expressions of the source are written as node lists and run by a        *)
(* backtracking matcher with Python's priorities (greedy, lazy, optional). *)
(***************************************************************************)
EXTENDS Integers, Sequences, FiniteSets, TLC

VARIABLES
    pc,             \* position of the running function
    arg,            \* arguments of the function under call
    ret,            \* its return value
    stats,          \* CompilationStats
    embedded_files, \* ObsidianParser.embedded_files
    vault,          \* the notes of the vault: relative path -> file content
    attachments,    \* the names of the files of the attachments folder
    master,         \* the content of the master file
    frontmatter,    \* compile_document's frontmatter
    content,        \* compile_document's content, then latex_body
    scan,           \* the loop of process_embeds
    embeds_log,     \* history: what resolve_embed did, call by call
    output_images,  \* the names of the files of <output>/images
    latex_doc,      \* the text written to main.tex
    config          \* Config

vars == <<pc, arg, ret, stats, embedded_files, vault, attachments, master,
          frontmatter, content, scan, embeds_log, output_images, latex_doc,
          config>>

\* CompilationStats()
NewStats ==
    [files_embedded |-> {}, sections_processed |-> 0, images_copied |-> {},
     internal_links |-> 0, warnings |-> <<>>]

\* CompilationStats.add_warning
add_warning(st, message) == [st EXCEPT !.warnings = Append(@, message)]

----------------------------------------------------------------------------
(* Bounds of the explored inputs.                                          *)

MaxDelta == 2        \* the deltas of demote_headings explored: 0..MaxDelta
MaxDemoteLen == 3    \* lines of a text given to demote_headings
MaxSecLines == 4     \* lines of a text given to extract_section
MaxRows == 3         \* data rows of a table
MaxLinks == 2        \* links of a text given to convert_wikilinks
MaxTokens == 3       \* pieces of a master file's body

----------------------------------------------------------------------------
(* Character classes of Python's re module (ASCII part).                   *)

Whitespace == {" ", "\t", "\n", "\r", "\f"}

Digits == {"0", "1", "2", "3", "4", "5", "6", "7", "8", "9"}

LowerCase ==
    {"a", "b", "c", "d", "e", "f", "g", "h", "i", "j", "k", "l", "m",
     "n", "o", "p", "q", "r", "s", "t", "u", "v", "w", "x", "y", "z"}

UpperCase ==
    {"A", "B", "C", "D", "E", "F", "G", "H", "I", "J", "K", "L", "M",
     "N", "O", "P", "Q", "R", "S", "T", "U", "V", "W", "X", "Y", "Z"}

WordChars == LowerCase \cup UpperCase \cup Digits \cup {"_"}

----------------------------------------------------------------------------
(* String helpers: Python's str methods.                                   *)

CharAt(s, i) == SubSeq(s, i, i)

Min(a, b) == IF a < b THEN a ELSE b

\* s[i:] with 1-based i
From(s, i) == SubSeq(s, i, Len(s))

\* s.startswith(p, at position i)
StartsWithAt(s, p, i) == i + Len(p) - 1 <= Len(s) /\ SubSeq(s, i, i + Len(p) - 1) = p

RECURSIVE Repeat(_, _)
\* c * n
Repeat(c, n) == IF n <= 0 THEN "" ELSE c \o Repeat(c, n - 1)

\* the least element of a non-empty set of integers, and the greatest
MinOf(S) == CHOOSE x \in S : \A y \in S : x <= y
MaxOf(S) == CHOOSE x \in S : \A y \in S : y <= x

\* the least element of a set of positive integers, 0 when it is empty
MinOrZero(S) == IF S = {} THEN 0 ELSE MinOf(S)

\* s.find(p, i): the first position >= i where p occurs, 0 when none
FindFrom(s, p, i) == MinOrZero({k \in i..(Len(s) - Len(p) + 1) : StartsWithAt(s, p, k)})

RECURSIVE Split(_, _)
\* s.split(sep) once the first occurrence k of sep is known (0: none)
SplitAt(s, sep, k) ==
    IF k = 0 THEN <<s>>
    ELSE <<SubSeq(s, 1, k - 1)>> \o Split(From(s, k + Len(sep)), sep)

\* s.split(sep)
Split(s, sep) == SplitAt(s, sep, FindFrom(s, sep, 1))

RECURSIVE Join(_, _)
\* sep.join(parts)
Join(parts, sep) ==
    IF Len(parts) = 0 THEN ""
    ELSE IF Len(parts) = 1 THEN parts[1]
    ELSE parts[1] \o sep \o Join(Tail(parts), sep)

RECURSIVE LStrip(_)
LStrip(s) ==
    IF Len(s) > 0 /\ CharAt(s, 1) \in Whitespace THEN LStrip(From(s, 2)) ELSE s

RECURSIVE RStrip(_)
RStrip(s) ==
    IF Len(s) > 0 /\ CharAt(s, Len(s)) \in Whitespace
    THEN RStrip(SubSeq(s, 1, Len(s) - 1)) ELSE s

\* s.strip()
Strip(s) == LStrip(RStrip(s))

RECURSIVE Replace(_, _, _)
\* s.replace(old, new) once the first occurrence k of old is known (0: none)
ReplaceAt(s, old, new, k) ==
    IF k = 0 THEN s
    ELSE SubSeq(s, 1, k - 1) \o new \o Replace(From(s, k + Len(old)), old, new)

\* s.replace(old, new), old non-empty
Replace(s, old, new) == ReplaceAt(s, old, new, FindFrom(s, old, 1))

----------------------------------------------------------------------------
(* Regular expressions.  A pattern is a sequence of nodes:                 *)
(*   lit   a literal string (ic: under re.IGNORECASE)                      *)
(*   chr   one character in (neg = FALSE) or not in (neg = TRUE) a set     *)
(*   rep   lo..hi repetitions of a chr node (hi = -1: unbounded), greedy   *)
(*         or lazy                                                         *)
(*   opt   an optional sub-pattern, (?:...)?                               *)
(*   alt   the alternatives a[1] | a[2] | ..., tried in this order         *)
(*   open, close   the parentheses of capture group g                      *)
(*   bol, eol      ^ and $ under re.MULTILINE                              *)
(* Match returns the match Python's backtracking finds first.              *)

In(S) == [t |-> "chr", neg |-> FALSE, s |-> S]
NotIn(S) == [t |-> "chr", neg |-> TRUE, s |-> S]
Rep(cls, lo, hi, lazy) == [t |-> "rep", cls |-> cls, lo |-> lo, hi |-> hi, lazy |-> lazy]
Optional(body) == [t |-> "opt", body |-> body]
Alt(bodies) == [t |-> "alt", a |-> bodies]
Open(g) == [t |-> "open", g |-> g]
Close(g) == [t |-> "close", g |-> g]
Bol == [t |-> "bol"]
Eol == [t |-> "eol"]

\* a literal string, and one under re.IGNORECASE
Lit(str) == <<[t |-> "lit", s |-> str, ic |-> FALSE]>>
LitIC(str) == <<[t |-> "lit", s |-> str, ic |-> TRUE]>>

\* a capture group around a pattern
Group(g, body) == <<Open(g)>> \o body \o <<Close(g)>>

Plus(cls) == Rep(cls, 1, -1, FALSE)
Star(cls) == Rep(cls, 0, -1, FALSE)
LazyPlus(cls) == Rep(cls, 1, -1, TRUE)
LazyStar(cls) == Rep(cls, 0, -1, TRUE)

\* the dot without re.DOTALL, and with it
Dot == NotIn({"\n"})
DotAll == NotIn({})

LowerAlphabet == "abcdefghijklmnopqrstuvwxyz"
UpperAlphabet == "ABCDEFGHIJKLMNOPQRSTUVWXYZ"

\* c.lower() of one character
LowerChar(c) ==
    IF c \in UpperCase
    THEN CharAt(LowerAlphabet, CHOOSE i \in 1..26 : CharAt(UpperAlphabet, i) = c)
    ELSE c

RECURSIVE Lower(_)
\* s.lower()
Lower(s) == IF Len(s) = 0 THEN "" ELSE LowerChar(CharAt(s, 1)) \o Lower(From(s, 2))

NGroups == 3

NoCaps == [g \in 1..NGroups |-> [ok |-> FALSE, st |-> 0, v |-> ""]]

NoMatch == [ok |-> FALSE, end |-> 0, caps |-> NoCaps]

\* the character at position i of s is one the chr node cls accepts
Accepts(cls, s, i) == (CharAt(s, i) \in cls.s) # cls.neg

\* the number of characters from pos on that cls accepts, hi at most
RunLength(cls, s, pos, hi) ==
    LET stop == CHOOSE j \in pos..(Len(s) + 1) :
                    /\ (j = Len(s) + 1 \/ ~Accepts(cls, s, j))
                    /\ \A i \in pos..(j - 1) : Accepts(cls, s, i)
    IN  IF hi >= 0 THEN Min(stop - pos, hi) ELSE stop - pos

\* the literal node n occurs at position pos of s
LitAt(n, s, pos) ==
    /\ pos + Len(n.s) - 1 <= Len(s)
    /\ IF n.ic THEN Lower(SubSeq(s, pos, pos + Len(n.s) - 1)) = Lower(n.s)
       ELSE SubSeq(s, pos, pos + Len(n.s) - 1) = n.s

\* the first of two attempts that matches
OrElse(m, other) == IF m.ok THEN m ELSE other

\* the count of repetitions a rep node takes among those after which the
\* rest matches: a greedy node the greatest, a lazy one the least; -1: none
PickCount(counts, lazy) ==
    IF counts = {} THEN -1 ELSE IF lazy THEN MinOf(counts) ELSE MaxOf(counts)

RECURSIVE Match(_, _, _, _)
RECURSIVE MatchAlt(_, _, _, _, _, _)
\* the rest of the pattern after k repetitions of a rep node
MatchCount(rest, s, pos, caps, k) ==
    IF k < 0 THEN NoMatch ELSE Match(rest, s, pos + k, caps)

\* the node n, then the node list rest, at position pos of s
MatchNode(n, rest, s, pos, caps) ==
    CASE n.t = "lit" ->
            IF LitAt(n, s, pos) THEN Match(rest, s, pos + Len(n.s), caps) ELSE NoMatch
      [] n.t = "chr" ->
            IF pos <= Len(s) /\ Accepts(n, s, pos)
            THEN Match(rest, s, pos + 1, caps)
            ELSE NoMatch
      [] n.t = "bol" ->
            IF pos = 1 \/ CharAt(s, pos - 1) = "\n"
            THEN Match(rest, s, pos, caps)
            ELSE NoMatch
      [] n.t = "eol" ->
            IF pos = Len(s) + 1 \/ CharAt(s, pos) = "\n"
            THEN Match(rest, s, pos, caps)
            ELSE NoMatch
      [] n.t = "open" ->
            Match(rest, s, pos, [caps EXCEPT ![n.g].st = pos])
      [] n.t = "close" ->
            Match(rest, s, pos,
                  [caps EXCEPT ![n.g] = [ok |-> TRUE, st |-> @.st,
                                         v |-> SubSeq(s, @.st, pos - 1)]])
      [] n.t = "alt" -> MatchAlt(n.a, 1, rest, s, pos, caps)
      [] n.t = "opt" ->
            OrElse(Match(n.body \o rest, s, pos, caps), Match(rest, s, pos, caps))
      [] n.t = "rep" ->
            MatchCount(rest, s, pos, caps,
                PickCount({k \in n.lo..RunLength(n.cls, s, pos, n.hi) :
                               Match(rest, s, pos + k, caps).ok}, n.lazy))

\* The first match, in Python's backtracking order, of the node list at
\* position pos of s; end is the position after the match.
Match(nodes, s, pos, caps) ==
    IF Len(nodes) = 0 THEN [ok |-> TRUE, end |-> pos, caps |-> caps]
    ELSE MatchNode(Head(nodes), Tail(nodes), s, pos, caps)

\* the alternatives a[k], a[k+1], ... followed by rest
MatchAlt(a, k, rest, s, pos, caps) ==
    IF k > Len(a) THEN NoMatch
    ELSE OrElse(Match(a[k] \o rest, s, pos, caps),
                MatchAlt(a, k + 1, rest, s, pos, caps))

\* a match and the position where it starts
MatchRecord(m, st) == [st |-> st, end |-> m.end, caps |-> m.caps]

RECURSIVE MatchesFrom(_, _, _, _)
\* the match m, then the matches after it
MatchesAfter(rx, s, starts, m) == <<m>> \o MatchesFrom(rx, s, starts, m.end)

\* the match that starts at st, then the matches after it
MatchesAt(rx, s, starts, st) ==
    MatchesAfter(rx, s, starts, MatchRecord(Match(rx, s, st, NoCaps), st))

\* the non-overlapping matches from position pos on, left to right, given
\* the set starts of all positions where the pattern matches
MatchesFrom(rx, s, starts, pos) ==
    LET next == {p \in starts : p >= pos}
    IN  IF next = {} THEN <<>> ELSE MatchesAt(rx, s, starts, MinOf(next))

\* the positions of s where the pattern matches
MatchStarts(rx, s) == {p \in 1..Len(s) : Match(rx, s, p, NoCaps).ok}

\* re.finditer(rx, s) (no pattern of the program matches the empty string)
FindAll(rx, s) == MatchesFrom(rx, s, MatchStarts(rx, s), 1)

RECURSIVE Splice(_, _, _, _, _)
\* re.sub once the matches ms and their replacements repl are known
Splice(s, ms, repl, i, pos) ==
    IF i > Len(ms) THEN From(s, pos)
    ELSE SubSeq(s, pos, ms[i].st - 1) \o repl[i] \o Splice(s, ms, repl, i + 1, ms[i].end)

\* the text s with each match of ms replaced by pre, its group g, post
SpliceTemplate(s, ms, pre, g, post) ==
    Splice(s, ms, [i \in 1..Len(ms) |-> pre \o ms[i].caps[g].v \o post], 1, 1)

\* re.sub(rx, pre + r'\g' + post, s): each match becomes pre, its group g, post
SubTemplate(rx, s, pre, g, post) == SpliceTemplate(s, FindAll(rx, s), pre, g, post)

----------------------------------------------------------------------------
(* Headings.                                                               *)

\* r'^(#{1,6})\s+(.+)$'
HeadingRx ==
    <<Bol>> \o Group(1, <<Rep(In({"#"}), 1, 6, FALSE)>>) \o <<Plus(In(Whitespace))>>
    \o Group(2, <<Plus(Dot)>>) \o <<Eol>>

\* ObsidianParser.demote_headings.replace_heading
DemoteReplaceHeading(caps, levels) ==
    Repeat("#", Min(Len(caps[1].v) + levels, 6)) \o " " \o caps[2].v

\* the text with each heading ms matches replaced by replace_heading
DemoteMatches(text, levels, ms) ==
    Splice(text, ms, [i \in 1..Len(ms) |-> DemoteReplaceHeading(ms[i].caps, levels)], 1, 1)

\* ObsidianParser.demote_headings
demote_headings(text, levels) == DemoteMatches(text, levels, FindAll(HeadingRx, text))

----------------------------------------------------------------------------
(* Section extraction.                                                     *)

\* Optional[str]: None, or a string
None == [found |-> FALSE, text |-> ""]
Some(text) == [found |-> TRUE, text |-> text]

RECURSIVE ExtractLoop(_, _, _, _, _, _)
\* a faulty variant of the loop body: only a heading of a strictly lower
\* level ends the section
ExtractLineStrict(lines, i, section_name, in_section, section_level, result_lines, heading_match) ==
    LET level == Len(heading_match.caps[1].v)
    IN  IF heading_match.ok /\ ~in_section
           /\ Strip(heading_match.caps[2].v) = section_name
        THEN ExtractLoop(lines, i + 1, section_name, TRUE, level, result_lines)
        ELSE IF heading_match.ok /\ in_section /\ level < section_level
        THEN [in_section |-> in_section, result_lines |-> result_lines]
        ELSE ExtractLoop(lines, i + 1, section_name, in_section, section_level,
                         IF in_section THEN Append(result_lines, lines[i])
                         ELSE result_lines)

\* The body of the for loop of extract_section at line i, heading_match
\* being the match of HeadingRx on the line.
ExtractLine(lines, i, section_name, in_section, section_level, result_lines, heading_match) ==
    LET level == Len(heading_match.caps[1].v)
    IN  IF heading_match.ok /\ ~in_section
           /\ Strip(heading_match.caps[2].v) = section_name
        THEN ExtractLoop(lines, i + 1, section_name, TRUE, level, result_lines)
        ELSE IF heading_match.ok /\ in_section /\ level <= section_level
        THEN [in_section |-> in_section, result_lines |-> result_lines]
        ELSE ExtractLoop(lines, i + 1, section_name, in_section, section_level,
                         IF in_section THEN Append(result_lines, lines[i])
                         ELSE result_lines)

\* The for loop of extract_section from line i on; in_section,
\* section_level and result_lines are its local variables.
ExtractLoop(lines, i, section_name, in_section, section_level, result_lines) ==
    IF i > Len(lines) THEN [in_section |-> in_section, result_lines |-> result_lines]
    ELSE ExtractLine(lines, i, section_name, in_section, section_level, result_lines,
                     Match(HeadingRx, lines[i], 1, NoCaps))

\* the end of extract_section, r being the locals the loop leaves
ExtractResult(st, section_name, r) ==
    IF ~r.in_section
    THEN [ret |-> None,
          stats |-> add_warning(st, "Section '" \o section_name \o "' not found")]
    ELSE [ret |-> Some(Join(r.result_lines, "\n")), stats |-> st]

\* ObsidianParser.extract_section: the returned value and the statistics
extract_section(st, text, section_name) ==
    ExtractResult(st, section_name,
                  ExtractLoop(Split(text, "\n"), 1, section_name, FALSE, 0, <<>>))

----------------------------------------------------------------------------
(* Tables.                                                                 *)

\* [cell.strip() for cell in parts[1:-1]]
StrippedCells(parts) == [k \in 1..(Len(parts) - 2) |-> Strip(parts[k + 1])]

\* [cell.strip() for cell in line.split('|')[1:-1]]
TableCells(line) == StrippedCells(Split(line, "|"))

\* a faulty variant: a row is kept whatever its number of cells
TableRowAny(cells, num_cols) == Join(cells, " & ") \o " \\\\\n"

\* what a row of cells adds to the tabular: nothing unless it has num_cols cells
TableRow(cells, num_cols) ==
    IF Len(cells) = num_cols THEN Join(cells, " & ") \o " \\\\\n" ELSE ""

RECURSIVE TableRows(_, _, _)
\* the "latex +=" loop over the rows that have num_cols cells, from line i on
TableRows(table_lines, i, num_cols) ==
    IF i > Len(table_lines) THEN ""
    ELSE TableRow(TableCells(table_lines[i]), num_cols)
         \o TableRows(table_lines, i + 1, num_cols)

\* the tabular of _convert_table, header being the cells of the first line
Tabular(table_lines, header) ==
    "\\begin{tabular}{" \o Repeat("l", Len(header)) \o "}\n"
    \o "\\hline\n"
    \o Join(header, " & ") \o " \\\\\n"
    \o "\\hline\n"
    \o TableRows(table_lines, 3, Len(header))
    \o "\\hline\n"
    \o "\\end{tabular}"

\* LatexConverter._convert_table
convert_table(table_lines) ==
    IF Len(table_lines) < 2 THEN Join(table_lines, "\n")
    ELSE Tabular(table_lines, TableCells(table_lines[1]))

\* '|' in line and line.strip().startswith('|')
IsTableLine(line) == FindFrom(line, "|", 1) > 0 /\ StartsWithAt(Strip(line), "|", 1)

\* the lines converted so far once a table, if one is open, has ended
FlushTable(result, in_table, table_lines) ==
    IF in_table THEN Append(result, convert_table(table_lines)) ELSE result

RECURSIVE TablesLoop(_, _, _, _, _)
\* The for loop of convert_tables from line i on, and the code after it.
TablesLoop(lines, i, result, in_table, table_lines) ==
    IF i > Len(lines) THEN FlushTable(result, in_table, table_lines)
    ELSE IF IsTableLine(lines[i])
    THEN TablesLoop(lines, i + 1, result, TRUE,
                    Append(IF in_table THEN table_lines ELSE <<>>, lines[i]))
    ELSE TablesLoop(lines, i + 1,
                    Append(FlushTable(result, in_table, table_lines), lines[i]),
                    FALSE, <<>>)

\* LatexConverter.convert_tables
convert_tables(text) == Join(TablesLoop(Split(text, "\n"), 1, <<>>, FALSE, <<>>), "\n")

----------------------------------------------------------------------------
(* Configuration.                                                          *)

\* Config: the defaults of the dataclass; vault_path is a required field
DefaultConfig ==
    [vault_path |-> "/vault", vault_name |-> "MyVault",
     attachments_folder |-> "present", obsidian_uri |-> TRUE]

----------------------------------------------------------------------------
(* Links.                                                                  *)

\* r'\[\[([^\]#|]+)(?:#([^\]|]+))?(?:\|([^\]]+))?\]\]'
WikilinkRx ==
    Lit("[[") \o Group(1, <<Plus(NotIn({"]", "#", "|"}))>>)
    \o <<Optional(Lit("#") \o Group(2, <<Plus(NotIn({"]", "|"}))>>))>>
    \o <<Optional(Lit("|") \o Group(3, <<Plus(NotIn({"]"}))>>))>>
    \o Lit("]]")

\* match.group(g).strip() if match.group(g) else None; None is written ""
\* (the code only tests the value's truth, and "" is as false as None)
StrippedGroup(caps, g) == IF caps[g].ok THEN Strip(caps[g].v) ELSE ""

\* the display text replace_link chooses
LinkText(filename, section, display) ==
    IF display # "" THEN display
    ELSE IF section # "" THEN section
    ELSE filename

\* the embed key of a file name and a section
EmbedKey(filename, section) ==
    IF section # "" THEN filename \o "#" \o section ELSE filename

\* a faulty variant of the test: the bare file name is not looked up
IsInternalKeyOnly(files_embedded, filename, section) ==
    EmbedKey(filename, section) \in files_embedded

\* the test of replace_link for an internal reference
IsInternalLink(files_embedded, filename, section) ==
    EmbedKey(filename, section) \in files_embedded \/ filename \in files_embedded

\* the LaTeX of a link to filename, section ("": none), shown as link_text
\* (section_labels is never filled, so .get returns its default)
LinkLatex(files_embedded, cfg, filename, section, link_text) ==
    IF IsInternalLink(files_embedded, filename, section)
    THEN "\\hyperref[sec:" \o Replace(filename, " ", "_") \o "]{" \o link_text \o "}"
    ELSE IF cfg.obsidian_uri
    THEN "\\href{obsidian://open?vault=" \o cfg.vault_name \o "&file="
         \o Replace(filename, " ", "%20")
         \o (IF section # "" THEN "&heading=" \o Replace(section, " ", "%20") ELSE "")
         \o "}{" \o link_text \o "}"
    ELSE "\\href{file://" \o cfg.vault_path \o "/" \o filename \o ".md}{"
         \o link_text \o "}"

\* the link of replace_link once its three groups are stripped
LinkOf(files_embedded, cfg, filename, section, display) ==
    LinkLatex(files_embedded, cfg, filename, section,
              LinkText(filename, section, display))

\* LatexConverter.convert_wikilinks.replace_link: the text returned
ReplaceLink(files_embedded, cfg, caps) ==
    LinkOf(files_embedded, cfg,
           Strip(caps[1].v), StrippedGroup(caps, 2), StrippedGroup(caps, 3))

\* the matches of ms that replace_link counts as internal links
InternalLinks(files_embedded, ms) ==
    {i \in 1..Len(ms) :
        IsInternalLink(files_embedded, Strip(ms[i].caps[1].v),
                       StrippedGroup(ms[i].caps, 2))}

\* convert_wikilinks once the matches ms of WikilinkRx are known
WikilinksResult(st, cfg, text, ms) ==
    [ret |-> Splice(text, ms,
                    [i \in 1..Len(ms) |-> ReplaceLink(st.files_embedded, cfg, ms[i].caps)],
                    1, 1),
     stats |-> [st EXCEPT !.internal_links =
                              @ + Cardinality(InternalLinks(st.files_embedded, ms))]]

\* LatexConverter.convert_wikilinks: the returned text and the statistics
convert_wikilinks(st, cfg, text) ==
    WikilinksResult(st, cfg, text, FindAll(WikilinkRx, text))

----------
(* Footnotes.                                                              *)

\* r'\^\[([^\]]+)\]'
InlineFootnoteRx == Lit("^[") \o Group(1, <<Plus(NotIn({"]"}))>>) \o Lit("]")

\* r'^\[\^(\w+)\]:\s*(.+)$'
FootnoteDefRx ==
    <<Bol>> \o Lit("[^") \o Group(1, <<Plus(In(WordChars))>>) \o Lit("]:")
    \o <<Star(In(Whitespace))>> \o Group(2, <<Plus(Dot)>>) \o <<Eol>>

\* r'\[\^(\w+)\]'
FootnoteRefRx == Lit("[^") \o Group(1, <<Plus(In(WordChars))>>) \o Lit("]")

\* footnote_defs[key] after extract_def ran on every definition: the last one
FootnoteDef(defs, key) ==
    LET last == CHOOSE i \in 1..Len(defs) :
                    /\ defs[i].caps[1].v = key
                    /\ \A j \in (i + 1)..Len(defs) : defs[j].caps[1].v # key
    IN  defs[last].caps[2].v

\* the keys of footnote_defs
FootnoteKeys(defs) == {defs[i].caps[1].v : i \in 1..Len(defs)}

\* convert_footnotes.replace_ref; m.group(0) is read from the text
replace_ref(defs, text, m) ==
    IF m.caps[1].v \in FootnoteKeys(defs)
    THEN "\\footnote{" \o FootnoteDef(defs, m.caps[1].v) \o "}"
    ELSE SubSeq(text, m.st, m.end - 1)

\* the text with each reference of ms replaced by replace_ref
SpliceRefs(text, defs, ms) ==
    Splice(text, ms, [i \in 1..Len(ms) |-> replace_ref(defs, text, ms[i])], 1, 1)

\* the re.sub of the references, defs being the definitions extracted
ReplaceRefs(text, defs) == SpliceRefs(text, defs, FindAll(FootnoteRefRx, text))

\* the re.sub by extract_def, which removes the definitions defs, and on
ExtractDefs(text, defs) ==
    ReplaceRefs(Splice(text, defs, [i \in 1..Len(defs) |-> ""], 1, 1), defs)

\* convert_footnotes after the inline footnotes are converted
FootnoteDefsAndRefs(text) == ExtractDefs(text, FindAll(FootnoteDefRx, text))

\* LatexConverter.convert_footnotes
convert_footnotes(text) ==
    FootnoteDefsAndRefs(SubTemplate(InlineFootnoteRx, text, "\\footnote{", 1, "}"))

----------------------------------------------------------------------------
(* Images.                                                                 *)

\* (png|jpg|jpeg|gif|pdf) under re.IGNORECASE
ImageExtRx == Alt(<<LitIC("png"), LitIC("jpg"), LitIC("jpeg"), LitIC("gif"), LitIC("pdf")>>)

\* r'!\[\[([^\]]+\.(png|jpg|jpeg|gif|pdf))\]\]'
WikiImageRx ==
    Lit("![[")
    \o Group(1, <<Plus(NotIn({"]"}))>> \o Lit(".") \o Group(2, <<ImageExtRx>>))
    \o Lit("]]")

\* r'!\[([^\]]*)\]\(([^)]+\.(png|jpg|jpeg|gif|pdf))\)'
MarkdownImageRx ==
    Lit("![") \o Group(1, <<Star(NotIn({"]"}))>>) \o Lit("](")
    \o Group(2, <<Plus(NotIn({")"}))>> \o Lit(".") \o Group(3, <<ImageExtRx>>))
    \o Lit(")")

\* r'(.+)', which the markdown form applies to its path with re.match
FirstLineRx == Group(1, <<Plus(Dot)>>)

\* the file name replace_image reads from a match of the double-bracket form
WikiImageName(m) == Strip(m.caps[1].v)

\* the same for the markdown form: group 1 of re.match(r'(.+)', m.group(2))
MarkdownImageName(m) == Strip(Match(FirstLineRx, m.caps[2].v, 1, NoCaps).caps[1].v)

\* re.match(r'(.+)', m.group(2)) is None: replace_image(None) raises
MarkdownImageRaises(m) == ~Match(FirstLineRx, m.caps[2].v, 1, NoCaps).ok

\* image_path.exists()
ImageExists(present, filename) == filename \in present

\* replace_image: the text returned for a file name
ReplaceImage(present, filename) ==
    IF ~ImageExists(present, filename)
    THEN "[MISSING IMAGE: " \o filename \o "]"
    ELSE "\\includegraphics[max width=\\textwidth]{images/" \o filename \o "}"

RECURSIVE ImageWarnings(_, _, _, _)
\* replace_image: the warnings its calls for the names add, in order
ImageWarnings(st, present, names, i) ==
    IF i > Len(names) THEN st
    ELSE ImageWarnings(
            IF ImageExists(present, names[i])
            THEN [st EXCEPT !.images_copied = @ \cup {names[i]}]
            ELSE add_warning(st, "Image not found: " \o names[i]),
            present, names, i + 1)

\* the file names replace_image reads from the matches ms of either form
WikiImageNames(ms) == [i \in 1..Len(ms) |-> WikiImageName(ms[i])]
MarkdownImageNames(ms) == [i \in 1..Len(ms) |-> MarkdownImageName(ms[i])]

\* the text with each image of the names replaced by replace_image
SpliceImages(present, text, ms, names) ==
    Splice(text, ms, [i \in 1..Len(ms) |-> ReplaceImage(present, names[i])], 1, 1)

\* the first re.sub of convert_images once its matches ms are known
WikiImagesResult(st, present, text, ms) ==
    [ret |-> SpliceImages(present, text, ms, WikiImageNames(ms)),
     stats |-> ImageWarnings(st, present, WikiImageNames(ms), 1)]

\* the first match of ms on which replace_image raises, 0 when none
FirstRaising(ms) == MinOrZero({i \in 1..Len(ms) : MarkdownImageRaises(ms[i])})

\* the second re.sub of convert_images once its matches ms are known; the
\* matches before the one that raises have been handled
MarkdownImagesResult(st, present, text, ms, first_raising) ==
    [ret |-> IF first_raising = 0
             THEN SpliceImages(present, text, ms, MarkdownImageNames(ms))
             ELSE text,
     stats |-> ImageWarnings(st, present,
                   MarkdownImageNames(SubSeq(ms, 1, IF first_raising = 0 THEN Len(ms)
                                                    ELSE first_raising - 1)), 1),
     raised |-> first_raising # 0]

\* the second re.sub of convert_images on the matches ms
MarkdownImagesOf(st, present, text, ms) ==
    MarkdownImagesResult(st, present, text, ms, FirstRaising(ms))

\* the second re.sub of convert_images after the first returned r
MarkdownImagesAfter(present, r) ==
    MarkdownImagesOf(r.stats, present, r.ret, FindAll(MarkdownImageRx, r.ret))

\* the result r with the files copied since the statistics were st
WithCopied(st, r) ==
    [ret |-> r.ret, stats |-> r.stats, raised |-> r.raised,
     copied |-> r.stats.images_copied \ st.images_copied]

\* LatexConverter.convert_images: the returned text, the statistics, the
\* files copied to the images directory, and whether the call raised
convert_images(st, present, text) ==
    WithCopied(st,
        MarkdownImagesAfter(present,
            WikiImagesResult(st, present, text, FindAll(WikiImageRx, text))))

----------------------------------------------------------------------------
(* Headings, lists, emphasis and code of convert_markdown_to_latex.        *)

\* a faulty variant: the ranks 4, 5 and 6 share the deepest command
heading_map_collapsed(level) ==
    CASE level = 1 -> "section"
      [] level = 2 -> "subsection"
      [] level = 3 -> "subsubsection"
      [] OTHER -> "subparagraph"

\* heading_map.get(level, 'paragraph')
heading_map(level) ==
    CASE level = 1 -> "section"
      [] level = 2 -> "subsection"
      [] level = 3 -> "subsubsection"
      [] level = 4 -> "paragraph"
      [] level = 5 -> "subparagraph"
      [] level = 6 -> "subparagraph"
      [] OTHER -> "paragraph"

\* label = f"sec:{title.lower().replace(' ', '_')}"
HeadingLabel(title) == "sec:" \o Replace(Lower(title), " ", "_")

\* convert_markdown_to_latex.replace_heading
LatexReplaceHeading(caps) ==
    "\\" \o heading_map(Len(caps[1].v)) \o "{" \o caps[2].v \o "}\\label{"
    \o HeadingLabel(caps[2].v) \o "}"

\* the text with each heading ms matches replaced by replace_heading
SpliceHeadings(text, ms) ==
    Splice(text, ms, [i \in 1..Len(ms) |-> LatexReplaceHeading(ms[i].caps)], 1, 1)

\* re.sub(r'^(#{1,6})\s+(.+)$', replace_heading, content, flags=re.MULTILINE)
convert_headings(text) == SpliceHeadings(text, FindAll(HeadingRx, text))

\* r'^(\s*)[-*+]\s+(.+)$'
UnorderedRx ==
    <<Bol>> \o Group(1, <<Star(In(Whitespace))>>) \o <<In({"-", "*", "+"})>>
    \o <<Plus(In(Whitespace))>> \o Group(2, <<Plus(Dot)>>) \o <<Eol>>

\* r'^(\s*)\d+\.\s+(.+)$'
OrderedRx ==
    <<Bol>> \o Group(1, <<Star(In(Whitespace))>>) \o <<Plus(In(Digits))>> \o Lit(".")
    \o <<Plus(In(Whitespace))>> \o Group(2, <<Plus(Dot)>>) \o <<Eol>>

\* the lines converted so far once a list, if one is open, has ended
CloseList(result, in_list, list_type) ==
    IF in_list THEN Append(result, "\\end{" \o list_type \o "}") ELSE result

\* a faulty variant: a change of marker style opens the new list inside
\* the one that is open
OpenListNested(result, in_list, list_type, current_type) ==
    IF ~in_list \/ list_type # current_type
    THEN Append(result, "\\begin{" \o current_type \o "}")
    ELSE result

\* the lines converted so far once a list of type current_type is open
OpenList(result, in_list, list_type, current_type) ==
    IF ~in_list
    THEN Append(result, "\\begin{" \o current_type \o "}")
    ELSE IF list_type # current_type
    THEN result \o <<"\\end{" \o list_type \o "}", "\\begin{" \o current_type \o "}">>
    ELSE result

RECURSIVE ListsLoop(_, _, _, _, _)
\* The body of the for loop of _convert_lists at line i; unordered and
\* ordered are the matches of the two patterns on the line.
ListLine(lines, i, result, in_list, list_type, unordered, ordered) ==
    LET item_text == IF unordered.ok THEN unordered.caps[2].v ELSE ordered.caps[2].v
        current_type == IF unordered.ok THEN "itemize" ELSE "enumerate"
    IN  IF unordered.ok \/ ordered.ok
        THEN ListsLoop(lines, i + 1,
                       Append(OpenList(result, in_list, list_type, current_type),
                              "  \\item " \o item_text),
                       TRUE, current_type)
        ELSE ListsLoop(lines, i + 1,
                       Append(CloseList(result, in_list, list_type), lines[i]),
                       FALSE, "")

\* The for loop of _convert_lists from line i on, and the code after it;
\* list_type is "" for None.
ListsLoop(lines, i, result, in_list, list_type) ==
    IF i > Len(lines) THEN CloseList(result, in_list, list_type)
    ELSE ListLine(lines, i, result, in_list, list_type,
                  Match(UnorderedRx, lines[i], 1, NoCaps),
                  Match(OrderedRx, lines[i], 1, NoCaps))

\* LatexConverter._convert_lists
convert_lists(text) == Join(ListsLoop(Split(text, "\n"), 1, <<>>, FALSE, ""), "\n")

\* r'\*\*(.+?)\*\*', r'\*(.+?)\*', r'__(.+?)__', r'_(.+?)_'
EmphasisRx(marker) == Lit(marker) \o Group(1, <<LazyPlus(Dot)>>) \o Lit(marker)

\* the four re.sub calls under "Convert emphasis"
convert_emphasis(text) ==
    SubTemplate(EmphasisRx("_"),
        SubTemplate(EmphasisRx("__"),
            SubTemplate(EmphasisRx("*"),
                SubTemplate(EmphasisRx("**"), text, "\\textbf{", 1, "}"),
                "\\textit{", 1, "}"),
            "\\textbf{", 1, "}"),
        "\\textit{", 1, "}")

\* The lexer of TLA+ admits no back-tick inside a string: "~" stands for the
\* back-tick in every text of the model.  No pattern or string of the
\* program names "~", so the texts of the model do not use it as itself.
Backtick == "~"
Fence == Backtick \o Backtick \o Backtick

\* the pattern of the code span: a back-tick, ([^BT]+), a back-tick
CodeSpanRx == Lit(Backtick) \o Group(1, <<Plus(NotIn({Backtick}))>>) \o Lit(Backtick)

\* re.sub of the code span by r'\\texttt{\1}'
convert_code_spans(text) == SubTemplate(CodeSpanRx, text, "\\texttt{", 1, "}")

\* the pattern of the fenced block under re.DOTALL: fence, (\w*), \n, (.*?), fence
CodeBlockRx ==
    Lit(Fence) \o Group(1, <<Star(In(WordChars))>>) \o Lit("\n")
    \o Group(2, <<LazyStar(DotAll)>>) \o Lit(Fence)

\* LatexConverter._convert_code_blocks
convert_code_blocks(text) ==
    SubTemplate(CodeBlockRx, text, "\\begin{verbatim}\n", 2, "\n\\end{verbatim}")

----------------------------------------------------------------------------
(* Reading a file.                                                         *)

\* a metadata value: kind is "dict" (d: key -> value), "none", "str" or "list"
EmptyDict == [kind |-> "dict", d |-> [k \in {} |-> ""]]

\* the non-blank lines of a text
NonBlankLines(text) == SelectSeq(Split(text, "\n"), LAMBDA l : Strip(l) # "")

\* a line "key: value" of a YAML mapping, and an item "- value" of a list
YamlMappingRx ==
    <<Bol>> \o Group(1, <<Plus(In(WordChars))>>) \o Lit(": ")
    \o Group(2, <<Plus(In(WordChars))>>) \o <<Eol>>
YamlItemRx == <<Bol>> \o Lit("- ") \o Group(1, <<Plus(In(WordChars))>>) \o <<Eol>>
YamlScalarRx == <<Bol>> \o <<Plus(In(WordChars))>> \o <<Eol>>

\* every line of ls matches the pattern rx
AllMatch(rx, ls) == \A i \in 1..Len(ls) : Match(rx, ls[i], 1, NoCaps).ok

\* the key and the value of a line "key: value"
YamlKey(line) == Match(YamlMappingRx, line, 1, NoCaps).caps[1].v
YamlValue(line) == Match(YamlMappingRx, line, 1, NoCaps).caps[2].v

\* the mapping of the lines "key: value": the last line of a key gives its value
YamlDict(ls) ==
    [k \in {YamlKey(ls[i]) : i \in 1..Len(ls)} |->
        YamlValue(ls[MaxOf({i \in 1..Len(ls) : YamlKey(ls[i]) = k})])]

\* yaml.safe_load on the non-blank lines ls of a block
YamlLoadLines(ls) ==
    IF Len(ls) = 0 THEN [kind |-> "none"]
    ELSE IF AllMatch(YamlMappingRx, ls) THEN [kind |-> "dict", d |-> YamlDict(ls)]
    ELSE IF AllMatch(YamlItemRx, ls) THEN [kind |-> "list"]
    ELSE IF Len(ls) = 1 /\ AllMatch(YamlScalarRx, ls) THEN [kind |-> "str"]
    ELSE [kind |-> "error"]

\* yaml.safe_load (PyYAML) on the blocks the model explores: no content is
\* None, lines "key: value" a mapping, lines "- value" a list, one word a
\* string; any other block here is one PyYAML rejects (YAMLError).
yaml_safe_load(block) == YamlLoadLines(NonBlankLines(block))

\* the end of the try block of read_file, loaded being what safe_load returns
FrontmatterLoaded(text, end, loaded) ==
    IF loaded.kind = "error"
    THEN [frontmatter |-> EmptyDict, content |-> text]
    ELSE [frontmatter |-> loaded, content |-> From(text, end + 5)]

\* the try block of read_file, end being content.index('\n---\n', 4) (0:
\* index raises ValueError)
FrontmatterAt(text, end) ==
    IF end = 0 THEN [frontmatter |-> EmptyDict, content |-> text]
    ELSE FrontmatterLoaded(text, end, yaml_safe_load(SubSeq(text, 5, end - 1)))

\* ObsidianParser.read_file on a file that exists and holds text
read_file(text) ==
    IF StartsWithAt(text, "---\n", 1)
    THEN FrontmatterAt(text, FindFrom(text, "\n---\n", 5))
    ELSE [frontmatter |-> EmptyDict, content |-> text]

\* ObsidianParser.read_file on a path that does not exist
read_missing_file(st, filepath) ==
    [frontmatter |-> EmptyDict, content |-> "",
     stats |-> add_warning(st, "File not found: " \o filepath)]

----------------------------------------------------------------------------
(* Embeds.                                                                 *)

\* r'!\[\[[^\]]+\]\]'
EmbedRx == Lit("![[") \o <<Plus(NotIn({"]"}))>> \o Lit("]]")

\* r'!\[\[([^\]#]+)(?:#([^\]]+))?\]\]'
ResolveRx ==
    Lit("![[") \o Group(1, <<Plus(NotIn({"]", "#"}))>>)
    \o <<Optional(Lit("#") \o Group(2, <<Plus(NotIn({"]"}))>>))>>
    \o Lit("]]")

\* s.endswith(p)
EndsWith(s, p) == Len(p) <= Len(s) /\ SubSeq(s, Len(s) - Len(p) + 1, Len(s)) = p

\* ObsidianParser._find_file: the paths it may return.  The direct path wins;
\* otherwise rglob returns the matches in an order the file system chooses,
\* and the first one is taken.
find_file(files, filename) ==
    IF (filename \o ".md") \in DOMAIN files THEN {filename \o ".md"}
    ELSE {p \in DOMAIN files : EndsWith(p, "/" \o filename \o ".md")}

RECURSIVE IntToStr(_)
\* str(n), n >= 0
IntToStr(n) ==
    IF n < 10 THEN CharAt("0123456789", n + 1)
    ELSE IntToStr(n \div 10) \o CharAt("0123456789", (n % 10) + 1)

\* What a call of resolve_embed leaves: the text returned, the parser's set
\* and the statistics after the call, which return statement was taken, and
\* the key and file name the call parsed.
EmbedResult(outcome, text, embedded, st, key, filename) ==
    [text |-> text, embedded |-> embedded, stats |-> st, outcome |-> outcome,
     key |-> key, filename |-> filename]

\* a faulty variant of the end of resolve_embed: the headings are not demoted
EmbedSplicedUndemoted(seen, st, embed_key, filename, text) ==
    EmbedResult("spliced", text, seen,
                [st EXCEPT !.sections_processed = @ + 1], embed_key, filename)

\* resolve_embed from demote_headings on
EmbedSpliced(seen, st, embed_key, filename, text) ==
    EmbedResult("spliced", demote_headings(text, 1), seen,
                [st EXCEPT !.sections_processed = @ + 1], embed_key, filename)

\* a faulty variant: a missing section counts as a processed section
EmbedSectionCounted(seen, st, embed_key, filename, section, extracted) ==
    IF ~extracted.ret.found
    THEN EmbedResult("missing_section",
                     "[MISSING SECTION: " \o filename \o "#" \o section \o "]",
                     seen, [extracted.stats EXCEPT !.sections_processed = @ + 1],
                     embed_key, filename)
    ELSE EmbedSpliced(seen, st, embed_key, filename, extracted.ret.text)

\* resolve_embed after extract_section returned extracted
EmbedSection(seen, st, embed_key, filename, section, extracted) ==
    IF ~extracted.ret.found
    THEN EmbedResult("missing_section",
                     "[MISSING SECTION: " \o filename \o "#" \o section \o "]",
                     seen, extracted.stats, embed_key, filename)
    ELSE EmbedSpliced(seen, st, embed_key, filename, extracted.ret.text)

\* resolve_embed after read_file returned file_content
EmbedFile(seen, st, embed_key, filename, section, file_content) ==
    IF section # ""
    THEN EmbedSection(seen, st, embed_key, filename, section,
                      extract_section(st, file_content, section))
    ELSE EmbedSpliced(seen, st, embed_key, filename, file_content)

\* resolve_embed once the key is registered; st counts the file name
EmbedRegistered(files, seen, st, line_num, filepath, embed_key, filename, section) ==
    IF find_file(files, filename) = {}
    THEN EmbedResult("missing_file", "[MISSING: " \o filename \o "]", seen,
                     add_warning(st, "Missing file: " \o filename
                                     \o ".md (line " \o IntToStr(line_num) \o ")"),
                     embed_key, filename)
    ELSE EmbedFile(seen, st, embed_key, filename, section,
                   read_file(files[filepath]).content)

\* a faulty variant: resolve_embed without its check for duplicates
EmbedKeyedUnchecked(files, embedded, st, line_num, filepath, embed_key, filename, section) ==
    EmbedRegistered(files, embedded \cup {embed_key},
                    [st EXCEPT !.files_embedded = @ \cup {filename}],
                    line_num, filepath, embed_key, filename, section)

\* resolve_embed from the check for duplicates on
EmbedKeyed(files, embedded, st, line_num, filepath, embed_key, filename, section) ==
    IF embed_key \in embedded
    THEN EmbedResult("duplicate", "", embedded,
                     add_warning(st, "Duplicate embed skipped: " \o embed_key
                                     \o " (line " \o IntToStr(line_num) \o ")"),
                     embed_key, filename)
    ELSE EmbedRegistered(files, embedded \cup {embed_key},
                         [st EXCEPT !.files_embedded = @ \cup {filename}],
                         line_num, filepath, embed_key, filename, section)

\* resolve_embed once filename and section are read from the match
EmbedParsed(files, embedded, st, line_num, filepath, filename, section) ==
    EmbedKeyed(files, embedded, st, line_num, filepath,
               EmbedKey(filename, section), filename, section)

\* resolve_embed after re.match returned match
EmbedMatched(files, embedded, st, embed_match, line_num, filepath, match) ==
    IF ~match.ok
    THEN EmbedResult("unparsed", embed_match, embedded, st, "", "")
    ELSE EmbedParsed(files, embedded, st, line_num, filepath,
                     Strip(match.caps[1].v), StrippedGroup(match.caps, 2))

\* ObsidianParser.resolve_embed; filepath is the path _find_file returns
\* (any value when it returns None or is not called)
resolve_embed(files, embedded, st, embed_match, line_num, filepath) ==
    EmbedMatched(files, embedded, st, embed_match, line_num, filepath,
                 Match(ResolveRx, embed_match, 1, NoCaps))

\* the state of process_embeds before its loop
StartScan(text) ==
    [lines |-> Split(text, "\n"), line_num |-> 1, pos |-> 1, out |-> "",
     result_lines |-> <<>>]

\* the position of the current line, from scan.pos on, where re.sub finds the
\* next embed; 0 when there is none
NextEmbed(sc) ==
    MinOrZero({p \in sc.pos..Len(sc.lines[sc.line_num]) :
                  Match(EmbedRx, sc.lines[sc.line_num], p, NoCaps).ok})

----------------------------------------------------------------------------
(* The document.                                                           *)

\* a template file with the five placeholders, and no macros.tex
Template == "{{title}}|{{author}}|{{date}}|{{custom_macros}}|{{body}}"
CustomMacros == ""

\* frontmatter.get(key, default) of a dict
DictGet(fm, key, default) == IF key \in DOMAIN fm.d THEN fm.d[key] ELSE default

\* create_latex_document: frontmatter.get raises AttributeError unless the
\* frontmatter is a dict
create_raises(fm) == fm.kind # "dict"

\* str(value) if value else default
StrOr(value, default) == IF value # "" THEN value ELSE default

\* create_latex_document, when it returns; str(date) if date and date !=
\* '\\today' else '\\today' is StrOr(date, '\\today')
create_latex_document(fm, body, template) ==
    Replace(
        Replace(
            Replace(
                Replace(
                    Replace(template, "{{title}}",
                            StrOr(DictGet(fm, "title", "Document"), "Document")),
                    "{{author}}", StrOr(DictGet(fm, "author", ""), "")),
                "{{date}}", StrOr(DictGet(fm, "date", "\\today"), "\\today")),
            "{{custom_macros}}", CustomMacros),
        "{{body}}", body)

----------------------------------------------------------------------------
(* compile_document, step by step.                                         *)

NoScan == StartScan("")

\* parser.read_file(master_file); main has checked that the file exists
ReadMaster ==
    /\ pc = "read_file"
    /\ \E r \in {read_file(master)} :
           /\ frontmatter' = r.frontmatter
           /\ content' = r.content
           /\ scan' = StartScan(r.content)
    /\ pc' = "process_embeds"
    /\ UNCHANGED <<arg, ret, stats, embedded_files, vault, attachments, master,
                   embeds_log, output_images, latex_doc, config>>

\* the paths _find_file returns for a match of ResolveRx
FilesFound(files, match) ==
    IF match.ok THEN find_file(files, Strip(match.caps[1].v)) ELSE {}

\* the paths found, or "" for None
OrNoFile(found) == IF found = {} THEN {""} ELSE found

\* the paths _find_file may return for an embed, "" when it returns None or
\* is not called
EmbedFileChoices(files, embed_match) ==
    OrNoFile(FilesFound(files, Match(ResolveRx, embed_match, 1, NoCaps)))

\* replace_embed on the embed of the current line that starts at st and
\* ends before end: the call of resolve_embed and the splice of its result
ReplaceEmbed(line, st, end) ==
    \E embed_match \in {SubSeq(line, st, end - 1)} :
    \E filepath \in EmbedFileChoices(vault, embed_match) :
    \E r \in {resolve_embed(vault, embedded_files, stats, embed_match,
                            scan.line_num, filepath)} :
        /\ embedded_files' = r.embedded
        /\ stats' = r.stats
        /\ scan' = [scan EXCEPT !.out = @ \o SubSeq(line, scan.pos, st - 1) \o r.text,
                                !.pos = end]
        /\ embeds_log' = Append(embeds_log,
                                [match |-> embed_match, key |-> r.key,
                                 filename |-> r.filename, outcome |-> r.outcome,
                                 text |-> r.text,
                                 warned |-> Len(r.stats.warnings) - Len(stats.warnings)])

\* process_embeds: re.sub reaches the next embed of the current line and
\* replace_embed replaces it
ResolveNextEmbed ==
    /\ pc = "process_embeds"
    /\ scan.line_num <= Len(scan.lines)
    /\ \E st \in {NextEmbed(scan)} :
           /\ st # 0
           /\ ReplaceEmbed(scan.lines[scan.line_num], st,
                           Match(EmbedRx, scan.lines[scan.line_num], st, NoCaps).end)
    /\ UNCHANGED <<pc, arg, ret, vault, attachments, master, frontmatter, content,
                   output_images, latex_doc, config>>

\* process_embeds: no embed is left in the current line; result_lines.append
EmbedLineDone ==
    /\ pc = "process_embeds"
    /\ scan.line_num <= Len(scan.lines)
    /\ NextEmbed(scan) = 0
    /\ scan' = [scan EXCEPT
                    !.result_lines = Append(@, scan.out \o From(scan.lines[scan.line_num], scan.pos)),
                    !.line_num = @ + 1, !.pos = 1, !.out = ""]
    /\ UNCHANGED <<pc, arg, ret, stats, embedded_files, vault, attachments, master,
                   frontmatter, content, embeds_log, output_images, latex_doc,
                   config>>

\* process_embeds returns '\n'.join(result_lines)
EmbedsDone ==
    /\ pc = "process_embeds"
    /\ scan.line_num > Len(scan.lines)
    /\ content' = Join(scan.result_lines, "\n")
    /\ pc' = "convert_footnotes"
    /\ UNCHANGED <<arg, ret, stats, embedded_files, vault, attachments, master,
                   frontmatter, scan, embeds_log, output_images, latex_doc,
                   config>>

\* a pass of convert_markdown_to_latex that only rewrites the text
TextPass(at, result, next) ==
    /\ pc = at
    /\ content' = result
    /\ pc' = next
    /\ UNCHANGED <<arg, ret, stats, embedded_files, vault, attachments, master,
                   frontmatter, scan, embeds_log, output_images, latex_doc,
                   config>>

ConvertFootnotes == TextPass("convert_footnotes", convert_footnotes(content), "convert_tables")

ConvertTables == TextPass("convert_tables", convert_tables(content), "convert_images")

\* content = self.convert_images(content); an exception ends the run
ConvertImages ==
    /\ pc = "convert_images"
    /\ \E r \in {convert_images(stats, attachments, content)} :
           /\ stats' = r.stats
           /\ output_images' = output_images \cup r.copied
           /\ content' = r.ret
           /\ pc' = IF r.raised THEN "convert_images_raised" ELSE "convert_wikilinks"
    /\ UNCHANGED <<arg, ret, embedded_files, vault, attachments, master,
                   frontmatter, scan, embeds_log, latex_doc, config>>

ConvertWikilinks ==
    /\ pc = "convert_wikilinks"
    /\ \E r \in {convert_wikilinks(stats, config, content)} :
           /\ stats' = r.stats
           /\ content' = r.ret
    /\ pc' = "convert_headings"
    /\ UNCHANGED <<arg, ret, embedded_files, vault, attachments, master,
                   frontmatter, scan, embeds_log, output_images, latex_doc,
                   config>>

ConvertHeadings == TextPass("convert_headings", convert_headings(content), "convert_lists")

ConvertLists == TextPass("convert_lists", convert_lists(content), "convert_emphasis")

ConvertEmphasis == TextPass("convert_emphasis", convert_emphasis(content), "convert_code_spans")

ConvertCodeSpans ==
    TextPass("convert_code_spans", convert_code_spans(content), "convert_code_blocks")

ConvertCodeBlocks ==
    TextPass("convert_code_blocks", convert_code_blocks(content), "create_latex_document")

\* latex_doc = create_latex_document(...) and the write of main.tex; an
\* exception ends the run
CreateLatexDocument ==
    /\ pc = "create_latex_document"
    /\ IF create_raises(frontmatter)
       THEN pc' = "create_latex_document_raised" /\ UNCHANGED latex_doc
       ELSE /\ latex_doc' = create_latex_document(frontmatter, content, Template)
            /\ pc' = "compile_latex"
    /\ UNCHANGED <<arg, ret, stats, embedded_files, vault, attachments, master,
                   frontmatter, content, scan, embeds_log, output_images,
                   config>>

\* compile_latex: the engine succeeds or fails; compile_document returns
CompileLatex ==
    /\ pc = "compile_latex"
    /\ \E success \in BOOLEAN : ret' = success
    /\ pc' = "done"
    /\ UNCHANGED <<arg, stats, embedded_files, vault, attachments, master,
                   frontmatter, content, scan, embeds_log, output_images, latex_doc,
                   config>>

ProcessEmbeds == ResolveNextEmbed \/ EmbedLineDone \/ EmbedsDone

ConvertMarkdownToLatex ==
    \/ ConvertFootnotes \/ ConvertTables \/ ConvertImages \/ ConvertWikilinks
    \/ ConvertHeadings \/ ConvertLists \/ ConvertEmphasis \/ ConvertCodeSpans
    \/ ConvertCodeBlocks

----------------------------------------------------------------------------
(* The inputs explored.                                                    *)

RECURSIVE Concats(_, _)
\* the concatenations of at most n pieces
Concats(pieces, n) ==
    IF n = 0 THEN {""}
    ELSE LET shorter == Concats(pieces, n - 1)
         IN  shorter \cup {w \o p : w \in shorter, p \in pieces}

RECURSIVE SeqsUpTo(_, _)
\* the sequences of at most n elements of S
SeqsUpTo(S, n) ==
    IF n = 0 THEN {<<>>}
    ELSE LET shorter == SeqsUpTo(S, n - 1)
         IN  shorter \cup {Append(w, x) : w \in shorter, x \in S}

\* a vault: Intro embeds World, a note that does not exist; A has the
\* sections S (with the subsection U) and T (empty); B lies in two
\* sub-folders and has frontmatter in one
FullVault ==
    ("Intro.md" :> "# Intro\nHello ![[World]]")
    @@ ("A.md" :> "# S\ns\n## U\nu\n# T")
    @@ ("sub/B.md" :> "---\nk: v\n---\n###### b")
    @@ ("top/B.md" :> "b2")

\* the state compile_document starts from, for a master file
StartCompile(files, images, text) ==
    /\ pc = "read_file"
    /\ arg = "" /\ ret = FALSE
    /\ stats = NewStats
    /\ embedded_files = {}
    /\ vault = files
    /\ attachments = images
    /\ master = text
    /\ frontmatter = EmptyDict
    /\ content = ""
    /\ scan = NoScan
    /\ embeds_log = <<>>
    /\ output_images = {}
    /\ latex_doc = ""
    /\ config = DefaultConfig

EmbedPieces ==
    {"![[A]]", "![[A#S]]", "![[A#X]]", "![[Intro]]", "![[B]]", "![[World]]",
     "![[#S]]", "\n", "x"}

\* Embed resolution: compile_document up to the return of process_embeds.
InitEmbeds ==
    \E text \in Concats(EmbedPieces, MaxTokens) : StartCompile(FullVault, {}, text)

NextEmbeds == ReadMaster \/ ProcessEmbeds

SpecEmbeds == InitEmbeds /\ [][NextEmbeds]_vars

----------------------------------------------------------------------------
(* The whole of compile_document.                                          *)

\* the frontmatter a master file starts with: none, a mapping, an empty
\* block, a list, a word, a block YAML rejects, and an unterminated block
FrontmatterPrefixes ==
    {"", "---\ntitle: T\n---\n", "---\n\n---\n", "---\n- a\n---\n",
     "---\nword\n---\n", "---\nk: v\nword\n---\n", "---\ntitle: T\n"}

\* raw texts placed in a fenced code block
RawTexts == {"abc", "*a*", "a|b"}

\* a document that is one fenced code block around raw
Fenced(raw) == Fence \o "\n" \o raw \o "\n" \o Fence

\* the bodies of the master file: fenced code, an image of the attachments
\* folder in double brackets, a markdown image whose path starts on the
\* next line, and a note with a heading, a list, a link, a footnote and an
\* embed
Bodies ==
    {Fenced(raw) : raw \in RawTexts}
    \cup {"![[pic.png]]", "![a](\nb.png)", "# T\n- i\n[[A|x]] ^[n]\n![[A]]"}

Init ==
    \E prefix \in FrontmatterPrefixes, body \in Bodies, images \in {{"pic.png"}, {}} :
        StartCompile(FullVault, images, prefix \o body)

Next ==
    \/ ReadMaster
    \/ ProcessEmbeds
    \/ ConvertMarkdownToLatex
    \/ CreateLatexDocument
    \/ CompileLatex

Spec == Init /\ [][Next]_vars

----------------------------------------------------------------------------
(* The functions on their own: a call is a state at the function's entry,  *)
(* arg holding the input the text was written from.                        *)

\* a state where the function at position at is about to run on text
StartAt(at, input, text, st, cfg) ==
    /\ pc = at
    /\ arg = input /\ ret = ""
    /\ stats = st
    /\ embedded_files = {}
    /\ vault = FullVault
    /\ attachments = {}
    /\ master = ""
    /\ frontmatter = EmptyDict
    /\ content = text
    /\ scan = NoScan
    /\ embeds_log = <<>>
    /\ output_images = {}
    /\ latex_doc = ""
    /\ config = cfg

\* lines given to demote_headings: headings of rank 1 and 6, and lines that
\* are no heading
DemoteLines == {"# a", "###### a", "#", "a", "#a"}

InitDemote ==
    \E lines \in SeqsUpTo(DemoteLines, MaxDemoteLen), d \in 0..MaxDelta, e \in 0..MaxDelta :
        StartAt("demote_headings", [lines |-> lines, d |-> d, e |-> e],
                Join(lines, "\n"), NewStats, DefaultConfig)

\* demote_headings(content, d)
DemoteOnce ==
    /\ pc = "demote_headings"
    /\ ret' = demote_headings(content, arg.d)
    /\ pc' = "demote_again"
    /\ UNCHANGED <<arg, stats, embedded_files, vault, attachments, master, frontmatter,
                   content, scan, embeds_log, output_images, latex_doc, config>>

\* demote_headings(the result, e)
DemoteAgain ==
    /\ pc = "demote_again"
    /\ ret' = demote_headings(ret, arg.e)
    /\ pc' = "demoted"
    /\ UNCHANGED <<arg, stats, embedded_files, vault, attachments, master, frontmatter,
                   content, scan, embeds_log, output_images, latex_doc, config>>

NextDemote == DemoteOnce \/ DemoteAgain

SpecDemote == InitDemote /\ [][NextDemote]_vars

\* the lines of a text given to extract_section: rank 0 is a plain line
SectionItems ==
    {[rank |-> 1, title |-> "A"], [rank |-> 2, title |-> "A"],
     [rank |-> 1, title |-> "B"], [rank |-> 2, title |-> "B"],
     [rank |-> 1, title |-> "a"], [rank |-> 0, title |-> "x"]}

\* the line of an item
SectionLine(item) ==
    IF item.rank = 0 THEN item.title ELSE Repeat("#", item.rank) \o " " \o item.title

\* the lines of a sequence of items
SectionLines(items) == [k \in 1..Len(items) |-> SectionLine(items[k])]

InitSection ==
    \E items \in SeqsUpTo(SectionItems, MaxSecLines) :
        StartAt("extract_section", [items |-> items, section_name |-> "A"],
                Join(SectionLines(items), "\n"), NewStats, DefaultConfig)

\* self.extract_section(content, section)
ExtractSection ==
    /\ pc = "extract_section"
    /\ \E r \in {extract_section(stats, content, arg.section_name)} :
           /\ ret' = r.ret
           /\ stats' = r.stats
    /\ pc' = "returned"
    /\ UNCHANGED <<arg, embedded_files, vault, attachments, master, frontmatter,
                   content, scan, embeds_log, output_images, latex_doc, config>>

SpecSection == InitSection /\ [][ExtractSection]_vars

\* the headers, the second lines and the data rows of the tables explored
TableHeaders == {<<"h">>, <<"h", "k">>}
TableSeparators == {"|---|", "| not a rule |"}
TableDataRows == {<<"a">>, <<"a", "b">>, <<"b", "a">>, <<"a", "b", "a">>}

\* the line of a row of cells
TableLine(cells) == "| " \o Join(cells, " | ") \o " |"

\* the lines of a table
TableText(table) ==
    Join(<<TableLine(table.header), table.separator>>
         \o [k \in 1..Len(table.rows) |-> TableLine(table.rows[k])], "\n")

InitTable ==
    \E header \in TableHeaders, separator \in TableSeparators,
       rows \in SeqsUpTo(TableDataRows, MaxRows), before \in {"", "x\n"}, after \in {"", "\ny"} :
        \E table \in {[header |-> header, separator |-> separator, rows |-> rows,
                       before |-> before, after |-> after]} :
            StartAt("convert_tables", table, before \o TableText(table) \o after,
                    NewStats, DefaultConfig)

SpecTable == InitTable /\ [][ConvertTables]_vars

\* the links explored: a name, a section ("": none) and a display text
\* ("": none)
Links ==
    [name : {"A", "My Note"}, section : {"", "S"}, display : {"", "See it"}]

\* the text of a link
LinkMarkup(link) ==
    "[[" \o link.name
    \o (IF link.section # "" THEN "#" \o link.section ELSE "")
    \o (IF link.display # "" THEN "|" \o link.display ELSE "")
    \o "]]"

\* a text with the links, in order
LinksText(links) == Join([k \in 1..Len(links) |-> LinkMarkup(links[k])], " and ")

InitLinks ==
    \E links \in SeqsUpTo(Links, MaxLinks), embedded \in SUBSET {"A", "My Note"},
       uri \in BOOLEAN :
        StartAt("convert_wikilinks", links, LinksText(links),
                [NewStats EXCEPT !.files_embedded = embedded],
                [DefaultConfig EXCEPT !.obsidian_uri = uri])

SpecLinks == InitLinks /\ [][ConvertWikilinks]_vars

----------------------------------------------------------------------------
(* What the embed markers of EmbedPieces stand for, read off the markers   *)
(* and the files of FullVault by hand.                                     *)

\* the embed key of a marker; "" for the marker resolve_embed cannot parse
KeyOfMarker(m) ==
    CASE m = "![[A]]" -> "A"
      [] m = "![[A#S]]" -> "A#S"
      [] m = "![[A#X]]" -> "A#X"
      [] m = "![[Intro]]" -> "Intro"
      [] m = "![[B]]" -> "B"
      [] m = "![[World]]" -> "World"
      [] OTHER -> ""

\* the file name of a marker
NameOfMarker(m) ==
    CASE m \in {"![[A]]", "![[A#S]]", "![[A#X]]"} -> "A"
      [] m = "![[Intro]]" -> "Intro"
      [] m = "![[B]]" -> "B"
      [] m = "![[World]]" -> "World"
      [] OTHER -> ""

\* the texts the target of a marker may be spliced as: the file or the
\* section with its headings one level down; {} when FullVault has no such
\* file or section (B is one of two files)
TargetTexts(m) ==
    CASE m = "![[A]]" -> {"## S\ns\n### U\nu\n## T"}
      [] m = "![[A#S]]" -> {"s\n### U\nu"}
      [] m = "![[Intro]]" -> {"## Intro\nHello ![[World]]"}
      [] m = "![[B]]" -> {"###### b", "b2"}
      [] OTHER -> {}

\* the i-th embed processed has the key of an earlier one
LaterOccurrence(i) ==
    \E j \in 1..(i - 1) : KeyOfMarker(embeds_log[j].match) = KeyOfMarker(embeds_log[i].match)

\* the embeds processed so far that have a key
KeyedEmbeds == {i \in 1..Len(embeds_log) : KeyOfMarker(embeds_log[i].match) # ""}

\* the warnings recorded that start with prefix
WarningsWith(prefix) ==
    {k \in 1..Len(stats.warnings) : StartsWithAt(stats.warnings[k], prefix, 1)}

\* C1: within one run, the first occurrence of an embed key is replaced by
\* the target content, every later occurrence of the key is replaced by the
\* empty text and adds exactly one 'Duplicate embed skipped' warning, and so
\* the content of a key is spliced at most once.
C1_DuplicateEmbedsDropped ==
    /\ \A i \in KeyedEmbeds :
          IF LaterOccurrence(i)
          THEN /\ embeds_log[i].text = ""
               /\ embeds_log[i].warned = 1
          ELSE TargetTexts(embeds_log[i].match) # {}
                  => embeds_log[i].text \in TargetTexts(embeds_log[i].match)
    /\ Cardinality(WarningsWith("Duplicate embed skipped: "))
          = Cardinality({i \in KeyedEmbeds : LaterOccurrence(i)})
    /\ \A i, j \in KeyedEmbeds :
          /\ i # j
          /\ KeyOfMarker(embeds_log[i].match) = KeyOfMarker(embeds_log[j].match)
          => embeds_log[i].text = "" \/ embeds_log[j].text = ""

\* a key is embedded, and embedded again
C1_Witness ==
    /\ Len(embeds_log) = 2
    /\ embeds_log[1].match = "![[A#S]]" /\ embeds_log[1].text = "s\n### U\nu"
    /\ embeds_log[2].match = "![[A#S]]" /\ embeds_log[2].text = ""
    /\ Len(stats.warnings) = 1

\* the run of claim C2 has returned from process_embeds
C2_Resolved ==
    /\ master = "![[Intro]]"
    /\ "World.md" \notin DOMAIN vault
    /\ vault["Intro.md"] = "# Intro\nHello ![[World]]"
    /\ pc = "convert_footnotes"

\* C2 as stated: for the master body ![[Intro]], Intro.md being "# Intro",
\* "Hello ![[World]]" and World.md missing, the resolved body is the Intro
\* heading at the second level, "Hello " and the missing-file marker for
\* World, and two warnings are recorded, one of them for World.
C2_Original ==
    C2_Resolved =>
        /\ content = "## Intro\nHello [MISSING: World]"
        /\ Len(stats.warnings) = 2
        /\ WarningsWith("Missing file: World.md") # {}

\* C2, amended: for that master body the resolved body is the Intro heading
\* at the second level followed by "Hello " and the embed marker of World
\* as Intro.md has it (the markers of an embedded file are not resolved),
\* no warning is recorded and one section is counted.
C2_NestedMarkerLeft ==
    C2_Resolved =>
        /\ content = "## Intro\nHello ![[World]]"
        /\ stats.warnings = <<>>
        /\ stats.sections_processed = 1
        /\ stats.files_embedded = {"Intro"}

C2_Witness == C2_Resolved /\ Len(embeds_log) = 1 /\ embeds_log[1].outcome = "spliced"

\* the i-th embed processed is the first of its key and has a target
Replaced(i) == ~LaterOccurrence(i) /\ TargetTexts(embeds_log[i].match) # {}

\* the number of embed markers of a text
MarkerCount(text) == Cardinality({p \in 1..Len(text) : StartsWithAt(text, "![[", p)})

\* C9: a non-duplicate embed whose file is not found becomes '[MISSING: name]'
\* with one warning, one whose section is not found '[MISSING SECTION:
\* name#section]'; neither stops the embeds after it nor counts as a section
\* processed, so sections_processed is the number of embeds replaced by
\* target content, and the name of every non-duplicate embed is in
\* files_embedded.
C9_EmbedOutcomeAccounting ==
    /\ \A i \in KeyedEmbeds :
          LET e == embeds_log[i]
          IN  /\ (~LaterOccurrence(i) /\ e.match = "![[World]]")
                    => e.text = "[MISSING: World]" /\ e.warned = 1
              /\ (~LaterOccurrence(i) /\ e.match = "![[A#X]]")
                    => e.text = "[MISSING SECTION: A#X]"
              /\ Replaced(i) => e.text \in TargetTexts(e.match)
              /\ ~LaterOccurrence(i) => NameOfMarker(e.match) \in stats.files_embedded
    /\ stats.sections_processed = Cardinality({i \in KeyedEmbeds : Replaced(i)})
    /\ Cardinality(WarningsWith("Missing file: "))
          = Cardinality({i \in KeyedEmbeds :
                            ~LaterOccurrence(i) /\ embeds_log[i].match = "![[World]]"})
    /\ pc = "convert_footnotes" => Len(embeds_log) = MarkerCount(master)

\* a missing file, then a missing section, then a file that is found
C9_Witness ==
    /\ pc = "convert_footnotes"
    /\ master = "![[World]]![[A#X]]![[A]]"
    /\ stats.sections_processed = 1
    /\ stats.files_embedded = {"World", "A"}

----------------------------------------------------------------------------
(* The translation of a whole document.                                    *)

\* convert_markdown_to_latex has returned
Translated == pc \in {"create_latex_document", "create_latex_document_raised",
                      "compile_latex", "done"}

\* C3 as stated: for any raw text inside a triple-back-tick block,
\* convert_markdown_to_latex emits exactly that raw text between
\* \begin{verbatim} and \end{verbatim}, whatever characters it contains
\* (the line breaks that close the block are not counted as part of it).
C3_Original ==
    \A raw \in RawTexts :
        (Translated /\ master = Fenced(raw))
            => content \in {"\\begin{verbatim}\n" \o raw \o closing \o "\\end{verbatim}" :
                               closing \in {"", "\n", "\n\n"}}

\* C4 as stated: in the full pipeline an image ![[pic.png]] of the body whose
\* file is in the attachments folder is copied to the images directory,
\* counted in stats.images_copied and included with \includegraphics; it
\* does not become a missing-file marker.
C4_Original ==
    (Translated /\ master = "![[pic.png]]" /\ "pic.png" \in attachments)
        => /\ "pic.png" \in output_images
           /\ "pic.png" \in stats.images_copied
           /\ content = "\\includegraphics[max width=\\textwidth]{images/pic.png}"
           /\ stats.warnings = <<>>

\* C10 as stated: whatever stands between the delimiters of a file that
\* begins with '---', read_file returns a metadata mapping, and
\* create_latex_document, given that metadata, returns without raising.
C10_Original ==
    /\ pc # "read_file" => frontmatter.kind = "dict"
    /\ pc # "create_latex_document_raised"

----------------------------------------------------------------------------
(* Links.                                                                  *)

\* name.replace(' ', '_') and name.replace(' ', '%20') of the names and
\* sections explored
Underscored(name) == IF name = "My Note" THEN "My_Note" ELSE name
Percent20(name) == IF name = "My Note" THEN "My%20Note" ELSE name

\* the text a link shows: the display text when given, else the section,
\* else the name
Shown(link) ==
    IF link.display # "" THEN link.display
    ELSE IF link.section # "" THEN link.section
    ELSE link.name

\* the link counts as internal: its key or its bare name was embedded
InternalIn(embedded, link) ==
    \/ link.name \in embedded
    \/ (link.section # "" /\ (link.name \o "#" \o link.section) \in embedded)

\* the external reference of a link
ExternalRef(cfg, link) ==
    IF cfg.obsidian_uri
    THEN "\\href{obsidian://open?vault=MyVault&file=" \o Percent20(link.name)
         \o (IF link.section # "" THEN "&heading=" \o link.section ELSE "")
         \o "}{" \o Shown(link) \o "}"
    ELSE "\\href{file:///vault/" \o link.name \o ".md}{" \o Shown(link) \o "}"

\* what a link is to become
ExpectedLink(embedded, cfg, link) ==
    IF InternalIn(embedded, link)
    THEN "\\hyperref[sec:" \o Underscored(link.name) \o "]{" \o Shown(link) \o "}"
    ELSE ExternalRef(cfg, link)

\* C5: a link is emitted as an internal cross-reference (\hyperref) if and
\* only if its section-qualified key or its bare name is in
\* stats.files_embedded, showing the display text when given (else the
\* section, else the name), and each such link adds one to
\* stats.internal_links; every other link is emitted as an external \href
\* and leaves the counter unchanged.
C5_LinkClassification ==
    pc = "convert_headings" =>
        /\ content = Join([k \in 1..Len(arg) |->
                              ExpectedLink(stats.files_embedded, config, arg[k])],
                          " and ")
        /\ stats.internal_links
              = Cardinality({k \in 1..Len(arg) : InternalIn(stats.files_embedded, arg[k])})

\* an embedded note linked with a display text, then a note never embedded
C5_Witness ==
    /\ pc = "convert_headings"
    /\ stats.files_embedded = {"A"}
    /\ arg = <<[name |-> "A", section |-> "S", display |-> "See it"],
               [name |-> "My Note", section |-> "", display |-> ""]>>
    /\ stats.internal_links = 1

----------------------------------------------------------------------------
(* Heading demotion.                                                       *)

\* a line of DemoteLines with its headings delta levels down: "# a" and
\* "###### a" are the heading lines
DemotedLine(line, delta) ==
    CASE line = "# a" -> Repeat("#", Min(1 + delta, 6)) \o " a"
      [] line = "###### a" -> "###### a"
      [] OTHER -> line

\* C6 as stated: demoting by d and then by e equals demoting by d + e, a
\* heading of rank r ends at rank min(r + d + e, 6), a heading of rank 6 is
\* left unchanged, and the lines that are no heading pass through unchanged.
C6_Original ==
    pc = "demoted" =>
        /\ ret = demote_headings(content, arg.d + arg.e)
        /\ ret = Join([k \in 1..Len(arg.lines) |->
                          DemotedLine(arg.lines[k], arg.d + arg.e)], "\n")

----------------------------------------------------------------------------
(* Section extraction.                                                     *)

\* the headings of the items that bear the title name
HeadingsNamed(items, name) ==
    {i \in 1..Len(items) : items[i].rank > 0 /\ items[i].title = name}

\* the headings after item h whose rank is at most that of item h
ClosingHeadings(items, h) ==
    {j \in (h + 1)..Len(items) : items[j].rank > 0 /\ items[j].rank <= items[h].rank}

\* the lines strictly between item h and item stop
LinesBetween(items, h, stop) ==
    Join([k \in 1..(stop - h - 1) |-> SectionLine(items[h + k])], "\n")

\* the section of the first heading named name: up to the next heading of
\* the same or a lower rank, or to the end
SectionOf(items, h) ==
    LinesBetween(items, h,
                 IF ClosingHeadings(items, h) = {} THEN Len(items) + 1
                 ELSE MinOf(ClosingHeadings(items, h)))

\* C7: extract_section returns the lines strictly between the first heading
\* whose title is the requested name, case-sensitively, and the next
\* heading of the same or a lower rank (or the end): both headings are
\* excluded and deeper subsections included; when no heading matches it
\* records one warning and returns None, which differs from the empty
\* string of a matched heading with nothing after it.
C7_SectionExtracted ==
    pc = "returned" =>
        IF HeadingsNamed(arg.items, arg.section_name) = {}
        THEN /\ ret = None
             /\ stats.warnings = <<"Section 'A' not found">>
        ELSE /\ ret.found
             /\ ret.text = SectionOf(arg.items, MinOf(HeadingsNamed(arg.items, arg.section_name)))
             /\ stats.warnings = <<>>

\* a section with a subsection, closed by a heading of the same rank
C7_Witness ==
    /\ pc = "returned"
    /\ arg.items = <<[rank |-> 1, title |-> "A"], [rank |-> 2, title |-> "B"],
                     [rank |-> 0, title |-> "x"], [rank |-> 1, title |-> "B"]>>
    /\ ret = Some("## B\nx")

----------------------------------------------------------------------------
(* Tables.                                                                 *)

\* the data rows of a table that have as many cells as its header
FullRows(table) == SelectSeq(table.rows, LAMBDA row : Len(row) = Len(table.header))

\* a row of the tabular
TabularLine(cells) == Join(cells, " & ") \o " \\\\\n"

\* the tabular of a table: its header and its full rows, in order
ExpectedTabular(table) ==
    "\\begin{tabular}{" \o Repeat("l", Len(table.header)) \o "}\n\\hline\n"
    \o TabularLine(table.header) \o "\\hline\n"
    \o Join([k \in 1..Len(FullRows(table)) |-> TabularLine(FullRows(table)[k])], "")
    \o "\\hline\n\\end{tabular}"

\* C8: for a table block whose header has M cells, the second line is
\* discarded without validation, every data row with exactly M cells is in
\* the tabular in its original order, its cells joined by ' & ' and ended
\* by ' \\', and every data row with another number of cells is absent,
\* with no warning and no error.
C8_TableRows ==
    pc = "convert_images" =>
        /\ content = arg.before \o ExpectedTabular(arg) \o arg.after
        /\ stats.warnings = <<>>

\* a header of two cells, a second line that is no rule, and a row of one
\* cell between two rows of two
C8_Witness ==
    /\ pc = "convert_images"
    /\ arg.header = <<"h", "k">>
    /\ arg.separator = "| not a rule |"
    /\ arg.rows = <<<<"a", "b">>, <<"a">>, <<"b", "a">>>>

----------------------------------------------------------------------------
(* Watch mode: compile_document called again and again by main.  arg holds *)
(* the number of the invocation and, for each master text and attachments  *)
(* folder compiled so far, what the latest invocation on them ended with.  *)

\* the invocations explored
MaxRuns == 3

\* the master texts of watch mode: a section embedded twice, a note embedded
\* once, an image of the attachments folder, and a link to a note
WatchMasters == {"![[A#S]]\n![[A#S]]", "![[A]] [[A]]", "![a](pic.png)"}

\* the folders of attachments of watch mode
WatchAttachments == {{"pic.png"}, {}}

\* what an invocation ended with
RunResult ==
    [content |-> content, stats |-> stats, embeds_log |-> embeds_log,
     latex_doc |-> latex_doc, embedded_files |-> embedded_files]

\* the first call of compile_document by main
InitWatch ==
    \E text \in WatchMasters, images \in WatchAttachments :
        /\ pc = "read_file"
        /\ arg = [runs |-> 1, results |-> <<>>]
        /\ ret = FALSE
        /\ stats = NewStats
        /\ embedded_files = {}
        /\ vault = FullVault
        /\ attachments = images
        /\ master = text
        /\ frontmatter = EmptyDict
        /\ content = ""
        /\ scan = NoScan
        /\ embeds_log = <<>>
        /\ output_images = {}
        /\ latex_doc = ""
        /\ config = DefaultConfig

\* a faulty variant of the next call: the parser, and its set of embedded
\* keys, outlives the invocation
RecompileKeepingParser ==
    /\ pc = "done"
    /\ arg.runs < MaxRuns
    /\ \E text \in WatchMasters, images \in WatchAttachments :
           master' = text /\ attachments' = images
    /\ arg' = [runs |-> arg.runs + 1,
               results |-> (<<master, attachments>> :> RunResult) @@ arg.results]
    /\ stats' = NewStats
    /\ embedded_files' = embedded_files
    /\ frontmatter' = EmptyDict
    /\ content' = ""
    /\ scan' = NoScan
    /\ embeds_log' = <<>>
    /\ pc' = "read_file"
    /\ UNCHANGED <<ret, vault, output_images, latex_doc, config>>

\* main, watch mode: compile_document has returned, the master file (or the
\* attachments folder) is written again, and compile_document is called:
\* stats = CompilationStats() and parser = ObsidianParser(...) are new
\* objects, the output directory is the one of the call before
Recompile ==
    /\ pc = "done"
    /\ arg.runs < MaxRuns
    /\ \E text \in WatchMasters, images \in WatchAttachments :
           master' = text /\ attachments' = images
    /\ arg' = [runs |-> arg.runs + 1,
               results |-> (<<master, attachments>> :> RunResult) @@ arg.results]
    /\ stats' = NewStats
    /\ embedded_files' = {}
    /\ frontmatter' = EmptyDict
    /\ content' = ""
    /\ scan' = NoScan
    /\ embeds_log' = <<>>
    /\ pc' = "read_file"
    /\ UNCHANGED <<ret, vault, output_images, latex_doc, config>>

NextWatch == Next \/ Recompile

SpecWatch == InitWatch /\ [][NextWatch]_vars

\* the latest invocation, if any, on the inputs of this one
SameInputsBefore == <<master, attachments>> \in DOMAIN arg.results

\* C11: each invocation of compile_document starts with an empty set of
\* embedded keys and new, empty statistics; an embed is skipped as a
\* duplicate only when its key occurs earlier in the same invocation; and an
\* invocation on inputs compiled before ends with the same resolved and
\* translated body, the same statistics and the same warnings.  What is
\* carried over is the output directory only.
C11_InvocationIndependence ==
    /\ pc = "read_file" => (stats = NewStats /\ embedded_files = {} /\ embeds_log = <<>>)
    /\ \A i \in 1..Len(embeds_log) :
          embeds_log[i].outcome = "duplicate"
              => \E j \in 1..(i - 1) : embeds_log[j].key = embeds_log[i].key
    /\ (pc = "done" /\ SameInputsBefore)
          => /\ content = arg.results[<<master, attachments>>].content
             /\ stats = arg.results[<<master, attachments>>].stats
             /\ embeds_log = arg.results[<<master, attachments>>].embeds_log
             /\ embedded_files = arg.results[<<master, attachments>>].embedded_files

\* the third invocation compiles the master of the first again, another
\* master having been compiled in between, and the image copied by that one
\* is still in the output directory although it has left the attachments
C11_Witness ==
    /\ pc = "done"
    /\ arg.runs = 3
    /\ master = "![[A#S]]\n![[A#S]]"
    /\ attachments = {}
    /\ SameInputsBefore
    /\ <<"![a](pic.png)", {"pic.png"}>> \in DOMAIN arg.results
    /\ output_images = {"pic.png"}
    /\ embeds_log[1].outcome = "spliced" /\ embeds_log[2].outcome = "duplicate"

----------------------------------------------------------------------------
(* compile_document on documents of headings, images and links.            *)

\* the titles of the headings explored
HeadingTitles == {"T", "a b", "a b c"}

\* the images explored, all in the attachments folder
ImageFiles == {"pic.png", "a_b_c.png"}

\* the notes embedded and linked: A is a file of the vault, the others are
\* files it does not hold
LinkedNotes == {"A", "x", "My Note", "my note"}

\* a document that is one heading of a rank
HeadingDoc(rank, title) == Repeat("#", rank) \o " " \o title

\* a document that is one image
ImageDoc(name) == "![x](" \o name \o ")"

\* a document with a heading whose title is the name of a note, the note
\* embedded, and a link to the note
LinkedDoc(name) == "# " \o name \o "\n![[" \o name \o "]]\n[[" \o name \o "]]"

\* the master files explored
TitleDocs ==
    {HeadingDoc(rank, "T") : rank \in 1..6}
    \cup {HeadingDoc(1, title) : title \in HeadingTitles}
    \cup {ImageDoc(name) : name \in ImageFiles}
    \cup {LinkedDoc(name) : name \in LinkedNotes}

InitTitles == \E text \in TitleDocs : StartCompile(FullVault, ImageFiles, text)

SpecTitles == InitTitles /\ [][Next]_vars

\* the text holds the piece
Contains(text, piece) == FindFrom(text, piece, 1) # 0

\* C12 as stated: the \label{sec:...} the heading pass emits for a title and
\* the images/<filename> path the image pass emits for a file reach the
\* output of convert_markdown_to_latex as they were emitted, for every
\* title and every file name.
C12_Original ==
    /\ \A title \in HeadingTitles :
          (Translated /\ master = HeadingDoc(1, title))
              => Contains(content, "\\label{" \o HeadingLabel(title) \o "}")
    /\ \A name \in ImageFiles :
          (Translated /\ master = ImageDoc(name))
              => Contains(content, "{images/" \o name \o "}")

\* C13 as stated: for every embedded file name F, the label of the internal
\* cross-reference emitted for the link [[F]] is the label the heading pass
\* generates for a heading whose title is F, so the \hyperref points at a
\* label the output defines when such a heading is present.
C13_Original ==
    \A name \in LinkedNotes :
        (Translated /\ master = LinkedDoc(name) /\ name \in stats.files_embedded)
            => /\ Contains(content, "\\label{" \o HeadingLabel(name) \o "}")
               /\ Contains(content, "\\hyperref[" \o HeadingLabel(name) \o "]{" \o name \o "}")

\* the sectioning command a text starts with
CommandOf(text) == SubSeq(text, 2, FindFrom(text, "{", 1) - 1)

\* C15 as stated: the ranks 1, 2 and 3 map to three distinct sectioning
\* commands, and the ranks 4, 5 and 6 all to one and the same command.
C15_Original ==
    \A rank \in 1..6 :
        (Translated /\ master = HeadingDoc(rank, "T"))
            => /\ content = "\\" \o CommandOf(content) \o "{T}\\label{sec:t}"
               /\ \A other \in 1..3 :
                     other # rank
                        => CommandOf(content) # CommandOf(convert_headings(HeadingDoc(other, "T")))
               /\ rank >= 4
                     => \A other \in 4..6 :
                           CommandOf(content) = CommandOf(convert_headings(HeadingDoc(other, "T")))

\* the sectioning commands of LaTeX, from the top down
SectioningCommands ==
    <<"section", "subsection", "subsubsection", "paragraph", "subparagraph">>

\* C15, amended: the ranks 1 to 5 map to the five sectioning commands
\* section, subsection, subsubsection, paragraph and subparagraph, each
\* rank to its own; rank 6 maps to the command of rank 5, the deepest one.
C15_HeadingCommands ==
    \A rank \in 1..6 :
        (Translated /\ master = HeadingDoc(rank, "T"))
            => content = "\\" \o SectioningCommands[Min(rank, 5)] \o "{T}\\label{sec:t}"

\* a heading of rank 4 has been translated, to \paragraph
C15_Witness ==
    /\ Translated
    /\ master = HeadingDoc(4, "T")
    /\ CommandOf(content) = "paragraph"

----------------------------------------------------------------------------
(* Lists.                                                                  *)

\* the lines of a text given to _convert_lists
MaxListLines == 4

\* the lines explored: bullet items (one of them indented), numbered
\* items (one of them indented), and lines that are no item: a word, an
\* empty line, and a marker without the space that makes an item
ListItems ==
    {[kind |-> "itemize", line |-> "- a", text |-> "a"],
     [kind |-> "itemize", line |-> "  * b", text |-> "b"],
     [kind |-> "enumerate", line |-> "1. c", text |-> "c"],
     [kind |-> "enumerate", line |-> "    12.  d", text |-> "d"],
     [kind |-> "none", line |-> "x", text |-> ""],
     [kind |-> "none", line |-> "", text |-> ""],
     [kind |-> "none", line |-> "-a", text |-> ""]}

InitLists ==
    \E items \in SeqsUpTo(ListItems, MaxListLines) :
        StartAt("convert_lists", items, Join([k \in 1..Len(items) |-> items[k].line], "\n"),
                NewStats, DefaultConfig)

SpecLists == InitLists /\ [][ConvertLists]_vars

\* the kind of the line before line k; "none" before the first
KindBefore(items, k) == IF k = 1 THEN "none" ELSE items[k - 1].kind

\* what closes the block open before a line, with its line break
ClosingBefore(kind) == IF kind = "none" THEN "" ELSE "\\end{" \o kind \o "}\n"

\* what line k of the items is to become: the close of the block before it
\* and the opening of its own, where the kind changes, and the line itself
ExpectedListLine(item, before) ==
    IF item.kind = "none" THEN ClosingBefore(before) \o item.line
    ELSE (IF before = item.kind THEN ""
          ELSE ClosingBefore(before) \o "\\begin{" \o item.kind \o "}\n")
         \o "  \\item " \o item.text

\* the close of the block still open after the last line
ExpectedListEnd(items) ==
    IF Len(items) > 0 /\ items[Len(items)].kind # "none"
    THEN <<"\\end{" \o items[Len(items)].kind \o "}">>
    ELSE <<>>

\* what the items are to become
ExpectedLists(items) ==
    Join([k \in 1..Len(items) |-> ExpectedListLine(items[k], KindBefore(items, k))]
         \o ExpectedListEnd(items), "\n")

RECURSIVE FlatBlocksFrom(_, _, _)
\* the lines from line i on are a flat block structure, open being the block
\* open before line i ("": none): no block opens inside a block, a block
\* is closed by the \end of its type, items lie inside a block, the other
\* lines outside, and no block is left open
FlatBlocksFrom(lines, i, open) ==
    IF i > Len(lines) THEN open = ""
    ELSE IF StartsWithAt(lines[i], "\\begin{", 1)
    THEN open = "" /\ FlatBlocksFrom(lines, i + 1, SubSeq(lines[i], 8, Len(lines[i]) - 1))
    ELSE IF StartsWithAt(lines[i], "\\end{", 1)
    THEN open # "" /\ lines[i] = "\\end{" \o open \o "}" /\ FlatBlocksFrom(lines, i + 1, "")
    ELSE IF StartsWithAt(lines[i], "  \\item ", 1)
    THEN open # "" /\ FlatBlocksFrom(lines, i + 1, open)
    ELSE open = "" /\ FlatBlocksFrom(lines, i + 1, open)

\* C14: _convert_lists opens a block (itemize for bullet lines, enumerate
\* for numbered lines) at the first line of each run of list lines, closes
\* it at the first line that is no list line or at the end of the input,
\* and on a change of marker style closes the block and opens one of the
\* other type; so every \begin is closed by an \end of its type, blocks
\* are never nested whatever the indentation, every \item lies inside one
\* block of its own type, and the other lines are emitted unchanged outside
\* any block.
C14_FlatLists ==
    pc = "convert_emphasis" =>
        /\ content = ExpectedLists(arg)
        /\ FlatBlocksFrom(Split(content, "\n"), 1, "")

\* a bullet item, a numbered item right after it, a line that is no item,
\* and an indented bullet item that ends the input
C14_Witness ==
    /\ pc = "convert_emphasis"
    /\ Len(arg) = 4
    /\ arg[1].line = "- a" /\ arg[2].line = "    12.  d"
    /\ arg[3].line = "x" /\ arg[4].line = "  * b"
    /\ content = "\\begin{itemize}\n  \\item a\n\\end{itemize}\n\\begin{enumerate}\n  \\item d\n\\end{enumerate}\nx\n\\begin{itemize}\n  \\item b\n\\end{itemize}"

====
